---- MODULE Spec2Model ----
(***************************************************************************)
(* Model of examples/simplegrep.c: a benchmark harness that loads a file   *)
(* into a buffer and runs five substring-search strategies over it, each   *)
(* reporting through the global hit counter gsHint.                        *)
(*                                                                         *)
(* Bytes are drawn from a two-letter alphabet; NUL is the C string         *)
(* terminator.  size_t arithmetic wraps modulo SizeModulus: TLC's integers *)
(* are 32 bits wide, so the 64-bit size_t is rendered with 30 bits, which  *)
(* keeps the wrap-around of length - (plen - 1) for every buffer modelled. *)
(* A read or write outside an object is undefined behaviour: the model     *)
(* stops the scan there; see Crashes and Undefined for what follows.       *)
(***************************************************************************)
EXTENDS Integers, Sequences, FiniteSets, TLC

VARIABLES pc, argc, pattern, fileData, charSigned, inputData, length, idx,
          gsHint, ret, exitCode, output, invoked, freed, run

vars == <<pc, argc, pattern, fileData, charSigned, inputData, length, idx,
          gsHint, ret, exitCode, output, invoked, freed, run>>

-----------------------------------------------------------------------------
(* Bounds of the model *)

MaxLen == 4

MaxPat == 3

MaxGarbage == 1

(* Program constants *)

TmpHintSize == 16

CharBits == 8

HS_SUCCESS == 0

SizeModulus == 2^30

NUL == "NUL"

Alphabet == {"a", "b"}

-----------------------------------------------------------------------------
(* Inputs *)

Rep(c, n) == [k \in 1..n |-> c]

SeqsUpTo(n) == UNION {[1..k -> Alphabet] : k \in 0..n}

(* Buffers long enough for a char counter to leave its range, and the     *)
(* "abababab" example.                                                     *)
LongBuffers ==
    { Rep("a", 2^(CharBits - 1) - 1), Rep("a", 2^(CharBits - 1)),
      Rep("a", 2^CharBits),
      <<"a", "b", "a", "b", "a", "b", "a", "b">> }

Files == SeqsUpTo(MaxLen) \cup LongBuffers

Patterns == SeqsUpTo(MaxPat) \cup
            { Rep("a", TmpHintSize), Rep("a", TmpHintSize + 1) }

AccessResults == {"missing", "unreadable", "ok"}

LoaderFailures == {"none", "fopen", "fseek_end", "ftell", "fseek_set",
                   "malloc", "fread"}

-----------------------------------------------------------------------------
(* C helpers *)

strlen(p) == Len(p)

(* pattern[j] of a NUL-terminated string, j counted from 0 *)
PatByte(p, j) == IF j < Len(p) THEN p[j + 1] ELSE NUL

(* inputData[k], k counted from 0 *)
DataByte(d, k) == d[k + 1]

(* tmpHint[j]++ on a char: the sum is converted back to char *)
CharInc(c) ==
    IF charSigned
    THEN ((c + 1 + 2^(CharBits - 1)) % 2^CharBits) - 2^(CharBits - 1)
    ELSE (c + 1) % 2^CharBits

LoopBoundOffByOne(len, plen) == (len - plen) % SizeModulus

(* length - (plen - 1), evaluated in size_t *)
LoopBound(len, plen) == (len - (plen - 1)) % SizeModulus

(* State of one strategy call: the global counter, the local accumulator  *)
(* of myBMScanMethod, and a record of what the call did.                   *)
NewScan(g) ==
    [gsHint  |-> g,
     tmpHint |-> [k \in 0..(TmpHintSize - 1) |-> 0],
     found   |-> 0,
     events  |-> <<>>,
     cmps    |-> 0,
     oob     |-> FALSE,
     hintIdx |-> {},
     ret     |-> 0]

eventHandler(s, to) ==
    [s EXCEPT !.gsHint = @ + 1, !.found = @ + 1, !.events = Append(@, to)]

-----------------------------------------------------------------------------
(* rookieScanMethod *)

(* The inner loop over j for one start offset i.  Reading inputData[i+j]  *)
(* with i + j >= length leaves the buffer: the scan stops there.           *)
RECURSIVE rookieInner(_, _, _, _, _, _)
rookieInner(d, len, p, i, j, s) ==
    LET plen == strlen(p) IN
    IF ~(j < plen) THEN s
    ELSE IF i + j >= len THEN [s EXCEPT !.cmps = @ + 1, !.oob = TRUE]
    ELSE IF PatByte(p, j) # DataByte(d, i + j) THEN [s EXCEPT !.cmps = @ + 1]
    ELSE IF j = plen - 1
         THEN rookieInner(d, len, p, i, j + 1,
                          eventHandler([s EXCEPT !.cmps = @ + 1], i))
         ELSE rookieInner(d, len, p, i, j + 1, [s EXCEPT !.cmps = @ + 1])

(* The outer loop for i = lo, lo+1, ..., hi-1, in this order.  The range   *)
(* is split in halves only to keep the evaluation shallow; the state s is  *)
(* threaded through the iterations from left to right.                     *)
RECURSIVE rookieFor(_, _, _, _, _, _)
rookieFor(d, len, p, lo, hi, s) ==
    IF s.oob \/ lo >= hi THEN s
    ELSE IF hi - lo = 1 THEN rookieInner(d, len, p, lo, 0, s)
    ELSE LET mid == lo + ((hi - lo) \div 2)
             left == rookieFor(d, len, p, lo, mid, s)
         IN  rookieFor(d, len, p, mid, hi, left)

rookieScanMethod(d, len, p) ==
    [rookieFor(d, len, p, 0, LoopBound(len, strlen(p)), NewScan(0))
        EXCEPT !.ret = 0]

-----------------------------------------------------------------------------
(* myBMScanMethod *)

RECURSIVE myBMInner(_, _, _, _, _, _)
myBMInner(d, len, p, i, j, s) ==
    LET plen == strlen(p) IN
    IF ~(j < plen) THEN s
    ELSE IF i + j >= len THEN [s EXCEPT !.cmps = @ + 1, !.oob = TRUE]
    ELSE IF PatByte(p, j) # DataByte(d, i + j) THEN [s EXCEPT !.cmps = @ + 1]
    ELSE IF j = plen - 1
         THEN IF j < TmpHintSize
              THEN myBMInner(d, len, p, i, j + 1,
                             [s EXCEPT !.cmps = @ + 1,
                                       !.found = @ + 1,
                                       !.hintIdx = @ \cup {j},
                                       !.tmpHint[j] = CharInc(@)])
              ELSE [s EXCEPT !.cmps = @ + 1,
                             !.found = @ + 1,
                             !.hintIdx = @ \cup {j},
                             !.oob = TRUE]
         ELSE myBMInner(d, len, p, i, j + 1, [s EXCEPT !.cmps = @ + 1])

RECURSIVE myBMFor(_, _, _, _, _, _)
myBMFor(d, len, p, lo, hi, s) ==
    IF s.oob \/ lo >= hi THEN s
    ELSE IF hi - lo = 1 THEN myBMInner(d, len, p, lo, 0, s)
    ELSE LET mid == lo + ((hi - lo) \div 2)
             left == myBMFor(d, len, p, lo, mid, s)
         IN  myBMFor(d, len, p, mid, hi, left)

(* The reduction loop: gsHint += tmpHint[j] for j = 0 .. 15 *)
RECURSIVE SumHint(_, _)
SumHint(t, j) == IF j >= TmpHintSize THEN 0 ELSE t[j] + SumHint(t, j + 1)

myBMScanMethod(d, len, p, g) ==
    LET s == myBMFor(d, len, p, 0, LoopBound(len, strlen(p)), NewScan(g))
    IN  IF s.oob THEN s
        ELSE [s EXCEPT !.gsHint = @ + SumHint(s.tmpHint, 0), !.ret = 0]

-----------------------------------------------------------------------------
(* memScanMethod *)

(* The loop for i = lo .. hi-1, split like the loops above (nothing sets   *)
(* s.oob here: i stays below length).                                      *)
RECURSIVE memFor(_, _, _, _, _)
memFor(d, p, lo, hi, s) ==
    IF s.oob \/ lo >= hi THEN s
    ELSE IF hi - lo = 1
         THEN IF PatByte(p, 0) = DataByte(d, lo)
              THEN eventHandler([s EXCEPT !.cmps = @ + 1], lo)
              ELSE [s EXCEPT !.cmps = @ + 1]
    ELSE LET mid == lo + ((hi - lo) \div 2)
             left == memFor(d, p, lo, mid, s)
         IN  memFor(d, p, mid, hi, left)

memScanMethodSkipFirst(d, len, p, g) ==
    [memFor(d, p, 1, len, NewScan(g)) EXCEPT !.ret = 0]

memScanMethod(d, len, p, g) ==
    [memFor(d, p, 0, len, NewScan(g)) EXCEPT !.ret = 0]

(* paraScanMethod *)
paraScanMethod(d, len, p, g) == [NewScan(g) EXCEPT !.ret = 0]

-----------------------------------------------------------------------------
(* hyperScanMethod: the engine behind hs_compile and hs_scan is outside    *)
(* this file.  hs_scan calls the handler once per occurrence of the        *)
(* pattern, with the offset of the occurrence's last byte.                 *)

Occurs(d, p, i) ==
    /\ i >= 0
    /\ i + Len(p) <= Len(d)
    /\ \A k \in 0..(Len(p) - 1) : d[i + k + 1] = p[k + 1]

RECURSIVE hs_scan(_, _, _, _, _)
hs_scan(d, p, lo, hi, s) ==
    IF s.oob \/ lo >= hi THEN s
    ELSE IF hi - lo = 1
         THEN IF Occurs(d, p, lo) THEN eventHandler(s, lo + Len(p) - 1) ELSE s
    ELSE LET mid == lo + ((hi - lo) \div 2)
             left == hs_scan(d, p, lo, mid, s)
         IN  hs_scan(d, p, mid, hi, left)

(* An empty expression never compiles; any other may fail for lack of     *)
(* resources.                                                              *)
hs_compile(p, compileOk) == compileOk /\ Len(p) > 0

hyperScanMethod(d, len, p, g, compileOk, scratchOk) ==
    IF ~hs_compile(p, compileOk) THEN [NewScan(g) EXCEPT !.ret = -1]
    ELSE IF ~scratchOk THEN [NewScan(g) EXCEPT !.ret = 0]
    ELSE [hs_scan(d, p, 0, len, NewScan(g)) EXCEPT !.ret = HS_SUCCESS]

-----------------------------------------------------------------------------
(* readInputData: NULL on any failure and on an empty file.  File sizes    *)
(* in the model stay far below UINT_MAX, so the clipping branch is never   *)
(* taken.                                                                  *)

readInputData(file, failure) ==
    IF failure \in {"fopen", "fseek_end", "ftell", "fseek_set"}
    THEN [ok |-> FALSE, data |-> <<>>, length |-> 0]
    ELSE IF Len(file) = 0
    THEN [ok |-> FALSE, data |-> <<>>, length |-> 0]
    ELSE IF failure \in {"malloc", "fread"}
    THEN [ok |-> FALSE, data |-> <<>>, length |-> 0]
    ELSE [ok |-> TRUE, data |-> file, length |-> Len(file)]

testFuncArr ==
    << [testName |-> "allMemScan",     testFun |-> "memScanMethod"],
       [testName |-> "hyperScan",      testFun |-> "hyperScanMethod"],
       [testName |-> "rookieScan",     testFun |-> "rookieScanMethod"],
       [testName |-> "myBMScanMethod", testFun |-> "myBMScanMethod"],
       [testName |-> "myScan",         testFun |-> "paraScanMethod"] >>

NumTests == Len(testFuncArr)

NoRun == [fn |-> "none"] @@ NewScan(0)

-----------------------------------------------------------------------------
(* main *)

Init ==
    /\ pc = "start"
    /\ argc \in {2, 3, 4}
    /\ pattern \in Patterns
    /\ fileData \in Files
    /\ charSigned \in BOOLEAN
    /\ inputData = <<>>
    /\ length = 0
    /\ idx = 0
    /\ gsHint = 0
    /\ ret = 0
    /\ exitCode = 0
    /\ output = <<>>
    /\ invoked = <<>>
    /\ freed = FALSE
    /\ run = NoRun

Exit(code) ==
    /\ pc' = "done"
    /\ exitCode' = code

(* if (argc != 3) return -1 *)
MainArgs ==
    /\ pc = "start"
    /\ IF argc # 3
       THEN Exit(-1)
       ELSE pc' = "access" /\ UNCHANGED exitCode
    /\ UNCHANGED <<argc, pattern, fileData, charSigned, inputData, length,
                   idx, gsHint, ret, output, invoked, freed, run>>

(* access(inputFN, F_OK), access(inputFN, R_OK) *)
MainAccess ==
    /\ pc = "access"
    /\ \E a \in AccessResults :
          IF a # "ok"
          THEN Exit(-1)
          ELSE pc' = "read" /\ UNCHANGED exitCode
    /\ UNCHANGED <<argc, pattern, fileData, charSigned, inputData, length,
                   idx, gsHint, ret, output, invoked, freed, run>>

(* inputData = readInputData(inputFN, &length); the loop starts at idx = 0 *)
MainRead ==
    /\ pc = "read"
    /\ \E failure \in LoaderFailures :
          LET r == readInputData(fileData, failure) IN
          IF ~r.ok
          THEN Exit(-1) /\ UNCHANGED <<inputData, length, idx>>
          ELSE /\ inputData' = r.data
               /\ length' = r.length
               /\ idx' = 0
               /\ pc' = "loop"
               /\ UNCHANGED exitCode
    /\ UNCHANGED <<argc, pattern, fileData, charSigned, gsHint, ret, output,
                   invoked, freed, run>>

(* The loop condition; gsHint = 0 at the top of the body; free and return  *)
(* ret after the loop.                                                     *)
LoopHead ==
    /\ pc = "loop"
    /\ IF idx < NumTests
       THEN /\ gsHint' = 0
            /\ pc' = "call"
            /\ UNCHANGED <<freed, exitCode>>
       ELSE /\ freed' = TRUE
            /\ Exit(ret)
            /\ UNCHANGED gsHint
    /\ UNCHANGED <<argc, pattern, fileData, charSigned, inputData, length,
                   idx, ret, output, invoked, run>>

(* pTest->testFun(inputData, length, pattern) returns: its result is       *)
(* dropped, ret is not assigned.                                           *)
Returns(fn, s) ==
    /\ gsHint' = s.gsHint
    /\ run' = [fn |-> fn] @@ s
    /\ invoked' = Append(invoked, [fn |-> fn, ret |-> s.ret])
    /\ pc' = "report"
    /\ UNCHANGED <<argc, pattern, fileData, charSigned, inputData, length,
                   idx, ret, exitCode, output, freed>>

(* The call read inputData past its end.  This happens only when the loop  *)
(* bound has wrapped to a value near the top of size_t, so the call does   *)
(* not return: the scan walks on through memory until the process dies.    *)
Crashes(fn, s) ==
    /\ run' = [fn |-> fn] @@ s
    /\ invoked' = Append(invoked, [fn |-> fn, ret |-> s.ret])
    /\ pc' = "crashed"
    /\ UNCHANGED <<argc, pattern, fileData, charSigned, inputData, length,
                   idx, gsHint, ret, exitCode, output, freed>>

(* The call wrote past the end of tmpHint, into its own stack frame: the   *)
(* process dies, or the call returns with whatever the counter then holds. *)
Undefined(fn, s) ==
    /\ run' = [fn |-> fn] @@ s
    /\ invoked' = Append(invoked, [fn |-> fn, ret |-> s.ret])
    /\ \/ pc' = "crashed" /\ UNCHANGED gsHint
       \/ \E g \in 0..MaxGarbage : gsHint' = g /\ pc' = "report"
    /\ UNCHANGED <<argc, pattern, fileData, charSigned, inputData, length,
                   idx, ret, exitCode, output, freed>>

Calling(fn) ==
    /\ pc = "call"
    /\ testFuncArr[idx + 1].testFun = fn

CallMemScan ==
    /\ Calling("memScanMethod")
    /\ Returns("memScanMethod", memScanMethod(inputData, length, pattern, gsHint))

CallHyperScan ==
    /\ Calling("hyperScanMethod")
    /\ \E compileOk \in BOOLEAN, scratchOk \in BOOLEAN :
          Returns("hyperScanMethod",
                  hyperScanMethod(inputData, length, pattern, gsHint,
                                  compileOk, scratchOk))

CallRookieScan ==
    /\ Calling("rookieScanMethod")
    /\ LET s == rookieScanMethod(inputData, length, pattern) IN
       IF s.oob THEN Crashes("rookieScanMethod", s)
                ELSE Returns("rookieScanMethod", s)

CallMyBMScan ==
    /\ Calling("myBMScanMethod")
    /\ LET s == myBMScanMethod(inputData, length, pattern, gsHint) IN
       IF ~s.oob THEN Returns("myBMScanMethod", s)
       ELSE IF s.hintIdx \subseteq 0..(TmpHintSize - 1)
            THEN Crashes("myBMScanMethod", s)
            ELSE Undefined("myBMScanMethod", s)

CallParaScan ==
    /\ Calling("paraScanMethod")
    /\ Returns("paraScanMethod", paraScanMethod(inputData, length, pattern, gsHint))

Status(r) == IF r = HS_SUCCESS THEN "DONE" ELSE "ERROR"

(* printf of the report line, then idx++ *)
Report ==
    /\ pc = "report"
    /\ output' = Append(output, [testName |-> testFuncArr[idx + 1].testName,
                                 status   |-> Status(ret),
                                 hit      |-> gsHint])
    /\ idx' = idx + 1
    /\ pc' = "loop"
    /\ UNCHANGED <<argc, pattern, fileData, charSigned, inputData, length,
                   gsHint, ret, exitCode, invoked, freed, run>>

Next ==
    \/ MainArgs
    \/ MainAccess
    \/ MainRead
    \/ LoopHead
    \/ CallMemScan
    \/ CallHyperScan
    \/ CallRookieScan
    \/ CallMyBMScan
    \/ CallParaScan
    \/ Report

Spec == Init /\ [][Next]_vars

-----------------------------------------------------------------------------
(* Properties *)

P == Len(pattern)

Loaded == length > 0

Terminated == pc \in {"done", "crashed"}

RookieRan == run.fn = "rookieScanMethod"

MyBMRan == run.fn = "myBMScanMethod"

(* The start offsets at which the pattern occurs in the buffer *)
StartOffsets == {i \in 0..(length - P) : Occurs(inputData, pattern, i)}

TimesSunk(to) == Cardinality({k \in DOMAIN run.events : run.events[k] = to})

ABABABAB == <<"a", "b", "a", "b", "a", "b", "a", "b">>

(* C1: for every buffer of length >= 1 and every non-empty pattern, the    *)
(* hit count reported for myBMScanMethod equals the hit count reported for *)
(* rookieScanMethod in the same run of the harness.                        *)
C1_HintedEqualsPlain ==
    (length >= 1 /\ P >= 1 /\ Len(output) >= 4)
        => output[4].hit = output[3].hit

(* C2: for 1 <= P <= L, rookieScanMethod calls the match sink exactly once *)
(* for each start offset in [0, L-P] where the pattern occurs and for no   *)
(* other offset, overlapping occurrences included ("aaa"/"aa" gives 2      *)
(* hits, "abababab"/"aba" gives 3), and the counter holds their number.    *)
C2_RookieSinksEachOccurrenceOnce ==
    (RookieRan /\ 1 <= P /\ P <= length) =>
        /\ ~run.oob
        /\ \A i \in StartOffsets : TimesSunk(i) = 1
        /\ \A k \in DOMAIN run.events : run.events[k] \in StartOffsets
        /\ run.found = Cardinality(StartOffsets)
        /\ pc = "report" => gsHint = Cardinality(StartOffsets)
        /\ (inputData = <<"a", "a", "a">> /\ pattern = <<"a", "a">>)
              => Len(run.events) = 2
        /\ (inputData = ABABABAB /\ pattern = <<"a", "b", "a">>)
              => Len(run.events) = 3

C2_Witness ==
    /\ RookieRan
    /\ pc = "report"
    /\ inputData = ABABABAB
    /\ pattern = <<"a", "b", "a">>
    /\ gsHint = 3

(* C3: for every occurrence of the pattern starting at offset i, the       *)
(* offset rookieScanMethod passes to the match sink is the end offset      *)
(* i + P - 1; "aba" in "abababab" gives 2, 4, 6.                           *)
C3_RookieSinksEndOffset ==
    (RookieRan /\ 1 <= P /\ P <= length) =>
        /\ \A i \in StartOffsets : TimesSunk(i + P - 1) = 1
        /\ \A k \in DOMAIN run.events :
              (run.events[k] - (P - 1)) \in StartOffsets

(* C4: for a pattern longer than the buffer, rookieScanMethod and          *)
(* myBMScanMethod find nothing, compare no byte and read no index >= L:    *)
(* the loop bound length - (plen - 1) does not wrap.                       *)
C4_LongPatternDoesNothing ==
    ((RookieRan \/ MyBMRan) /\ P > length) =>
        /\ LoopBound(length, P) = 0
        /\ run.found = 0
        /\ run.cmps = 0
        /\ ~run.oob
        /\ pc = "report" => gsHint = 0

(* C5: the status of each report line is ERROR if that strategy's scan     *)
(* returned a failure and DONE otherwise.                                  *)
C5_StatusIsOwnResult ==
    \A k \in DOMAIN output :
        output[k].status = (IF invoked[k].ret # 0 THEN "ERROR" ELSE "DONE")

(* C6: after a successful load the harness calls every registered strategy *)
(* exactly once and prints exactly one line for each, in registration      *)
(* order, whatever the strategies return, and releases the buffer only     *)
(* after the last line.                                                    *)
C6_EveryStrategyRunsAndReports ==
    /\ Len(invoked) <= NumTests
    /\ \A k \in DOMAIN invoked : invoked[k].fn = testFuncArr[k].testFun
    /\ Len(output) <= Len(invoked)
    /\ \A k \in DOMAIN output : output[k].testName = testFuncArr[k].testName
    /\ freed => Len(output) = NumTests
    /\ (Loaded /\ Terminated) =>
          /\ Len(invoked) = NumTests
          /\ Len(output) = NumTests
          /\ freed

(* C7: the exit code is -1 and no strategy has run when the argument count *)
(* is not 3, the file is missing or unreadable, or the loader fails; when  *)
(* the buffer loads, all strategies run and the exit code is 0.            *)
C7_ExitCode ==
    /\ (pc = "done" /\ argc # 3) => (exitCode = -1 /\ invoked = <<>>)
    /\ (pc = "done" /\ ~Loaded) => (exitCode = -1 /\ invoked = <<>>)
    /\ (Loaded /\ Terminated) =>
          /\ pc = "done"
          /\ exitCode = 0
          /\ Len(output) = NumTests

(* C8: the hit counter is 0 when each strategy starts, and the hit count   *)
(* reported for a strategy is the number of matches found by that          *)
(* strategy's own run, with nothing left over from earlier strategies.     *)
C8_CounterIsOwnRun ==
    /\ pc = "call" => gsHint = 0
    /\ pc = "report" => gsHint = run.found

(* C9: for a pattern of length 1 and a buffer of length >= 1, the hit      *)
(* count reported for memScanMethod equals the one reported for            *)
(* rookieScanMethod.                                                       *)
C9_SingleByteEqualsRookie ==
    (P = 1 /\ length >= 1 /\ Len(output) >= 3)
        => /\ output[1].hit = output[3].hit
           /\ output[3].hit = Cardinality(StartOffsets)

C9_Witness ==
    /\ P = 1
    /\ Len(inputData) = MaxLen
    /\ Len(output) >= 3
    /\ output[1].hit = 2
    /\ output[3].hit = 2

(* C10: every write of myBMScanMethod to the accumulator tmpHint uses an   *)
(* index in 0 .. 15, for every non-empty pattern of any length.            *)
C10_HintIndexInBounds ==
    (MyBMRan /\ P >= 1) => run.hintIdx \subseteq 0..(TmpHintSize - 1)

====
